---- MODULE Spec2Model ----
(***************************************************************************)
(* robinhood-checker: the configuration parser of stock_categories.py      *)
(* (StockCategories, Category, Ticker) and the report run of main.py.      *)
(*                                                                         *)
(* The row source is the environment: every reader.__next__() draws the    *)
(* next row from RowPool, or StopIteration.  Floats are modelled by the    *)
(* integers they denote; every amount is chosen so that the divisions of   *)
(* the report run are exact.                                               *)
(***************************************************************************)
EXTENDS Integers, Sequences, FiniteSets, TLC

\* ----------------------------------------------------------------- bounds
\* rows one StockCategories object may read from its row source
MaxRows == 7
\* accessor calls a client makes on one object
MaxCalls == 3

\* ------------------------------------------------------------ python values
\* None, and a value that is not None
None == <<>>
Some(v) == <<v>>

EmptyDict == [k \in {} |-> <<>>]

\* d[k] = v of a dict: a new key is added, an existing key is overwritten
setitem(d, k, v) == [x \in (DOMAIN d) \cup {k} |-> IF x = k THEN v ELSE d[x]]

\* d[k]: the value, or KeyError
getitem(d, k) ==
  IF k \in DOMAIN d THEN [exc |-> "none", val |-> d[k]]
  ELSE [exc |-> "KeyError", val |-> <<>>]

\* the cells that float() accepts, among the cells of the row pool
FloatLiterals == {"0", "50", "100"}

\* float(s) of a str: the number, or ValueError (TypeError is raised for
\* arguments that are not str or numbers only; a csv cell is always a str)
float(s) ==
  IF s \in FloatLiterals
  THEN [exc |-> "none", val |-> CASE s = "0" -> 0 [] s = "50" -> 50 [] s = "100" -> 100]
  ELSE [exc |-> "ValueError", val |-> 0]

\* s.replace('%', ''), on the cells of the row pool
replace_percent(s) == IF s = "50%" THEN "50" ELSE s

\* ------------------------------------------------------------- row source
CategoryNames == {"Tech", "Bonds"}
TickerNames == {"AAPL", "Cash"}

\* the category cells a ticker row may carry: none, one, two, one twice
CategoryLists ==
  {<<>>, <<"Tech">>, <<"Bonds">>, <<"Tech", "Bonds">>, <<"Tech", "Tech">>}

SettingRows ==
  {<<"Reserved cash amount", v>> : v \in {"100", "0", "abc"}}
    \cup {<<"Reserved cash amount">>, <<"note">>}
MarkerRows == {<<"Category", "Ideal">>, <<"Stock ticker", "Category">>}
BlankRows == {<<>>, <<"", "">>}
CategoryRows ==
  {<<c, p>> : c \in CategoryNames, p \in {"50%", "abc"}} \cup {<<"Tech", "50%", "">>}
TickerRows ==
  {<<t>> \o cs : t \in TickerNames, cs \in CategoryLists}

\* the rows csv.reader may yield
RowPool == SettingRows \cup MarkerRows \cup BlankRows \cup CategoryRows \cup TickerRows

StopIteration == [stop |-> TRUE, row |-> <<>>]

\* ------------------------------------------------------- stock_categories.py
RECURSIVE trim_trailing_empty_values(_)
trim_trailing_empty_values(input_list) ==
  IF Len(input_list) = 0 THEN input_list
  ELSE IF input_list[Len(input_list)] = ""
       THEN trim_trailing_empty_values(SubSeq(input_list, 1, Len(input_list) - 1))
       ELSE input_list

\* the exception a handler "except TypeError" lets through or replaces
except_TypeError(exc, replacement) == IF exc = "TypeError" THEN replacement ELSE exc

\* Category(name, allocation_percentage): the object, or the exception raised
Category(name, allocation_percentage) ==
  LET f == float(replace_percent(allocation_percentage))
  IN IF f.exc = "none"
     THEN [exc |-> "none",
           obj |-> [name |-> name, tickers |-> <<>>, allocation_percentage |-> f.val]]
     ELSE [exc |-> except_TypeError(f.exc, "ParseError"), obj |-> <<>>]

Ticker(name, categories) == [name |-> name, categories |-> categories]

\* row[1:]
Tail1(row) == SubSeq(row, 2, Len(row))

\* a dict that keeps its keys in insertion order (categories_by_name)
EmptyOrderedDict == [keys |-> <<>>, at |-> EmptyDict]
ordered_setitem(d, k, v) ==
  [keys |-> IF k \in DOMAIN d.at THEN d.keys ELSE Append(d.keys, k),
   at |-> setitem(d.at, k, v)]

\* one iteration of the loop "load all basic settings" on a trimmed row
settings_row(row, min) ==
  IF Len(row) = 0 THEN [to |-> "settings", exc |-> "none", min |-> min, interp |-> "skip"]
  ELSE IF row[1] = "Category"
  THEN [to |-> "categories", exc |-> "none", min |-> min, interp |-> "marker"]
  ELSE IF row[1] = "Stock ticker"
  THEN [to |-> "categories", exc |-> "none", min |-> min, interp |-> "marker"]
  ELSE IF row[1] = "Reserved cash amount"
  THEN LET e == IF Len(row) < 2 THEN "IndexError" ELSE float(row[2]).exc
       IN IF e = "none"
          THEN [to |-> "settings", exc |-> "none", min |-> Some(float(row[2]).val),
                interp |-> "setting"]
          ELSE [to |-> "raise", exc |-> except_TypeError(e, "ParseError"), min |-> min,
                interp |-> "setting"]
  ELSE [to |-> "settings", exc |-> "none", min |-> min, interp |-> "setting"]

\* one iteration of the loop "load all categories" on a trimmed row
categories_row(row, cats) ==
  IF Len(row) = 0 THEN [to |-> "categories", exc |-> "none", cats |-> cats, interp |-> "skip"]
  ELSE IF row[1] = "Category"
  THEN [to |-> "categories", exc |-> "none", cats |-> cats, interp |-> "marker"]
  ELSE IF row[1] = "Stock ticker"
  THEN [to |-> "tickers", exc |-> "none", cats |-> cats, interp |-> "marker"]
  ELSE IF Len(row) < 2
  THEN [to |-> "raise", exc |-> "IndexError", cats |-> cats, interp |-> "category"]
  ELSE LET c == Category(row[1], row[2])
       IN IF c.exc = "none"
          THEN [to |-> "categories", exc |-> "none",
                cats |-> ordered_setitem(cats, row[1], c.obj), interp |-> "category"]
          ELSE [to |-> "raise", exc |-> c.exc, cats |-> cats, interp |-> "category"]

\* "for category_name in category_names: categories_by_name[category_name]
\* .tickers.append(t)": the dict after the loop, or KeyError at the first
\* name that is no key
RECURSIVE append_ticker(_, _, _)
append_ticker(cats, t, category_names) ==
  IF category_names = <<>> THEN [exc |-> "none", cats |-> cats]
  ELSE LET name == Head(category_names)
           c == getitem(cats.at, name)
       IN IF c.exc # "none" THEN [exc |-> c.exc, cats |-> cats]
          ELSE append_ticker(
                 [cats EXCEPT !.at[name].tickers = Append(@, t)], t, Tail(category_names))

\* one iteration of the loop "load all stock tickers and their categories"
tickers_row(row, cats, ticks) ==
  IF Len(row) = 0
  THEN [to |-> "tickers", exc |-> "none", cats |-> cats, ticks |-> ticks, interp |-> "skip"]
  ELSE IF row[1] = "Stock ticker"
  THEN [to |-> "tickers", exc |-> "none", cats |-> cats, ticks |-> ticks, interp |-> "marker"]
  ELSE LET t == Ticker(row[1], Tail1(row))
           a == append_ticker(cats, t, Tail1(row))
       IN IF a.exc = "none"
          THEN [to |-> "tickers", exc |-> "none", cats |-> a.cats,
                ticks |-> setitem(ticks, row[1], t), interp |-> "ticker"]
          ELSE [to |-> "raise", exc |-> a.exc, cats |-> cats, ticks |-> ticks,
                interp |-> "ticker"]

\* needs_load, had load_info_from_csv() no test of csv_data
needs_load_always(data) == TRUE

\* "if not self.csv_data": None is falsy, the 3-tuple a parse returns is not
needs_load(data) == data = None

\* ---- the accessors, on the tuple load_info_from_csv returned
Return(v) == [kind |-> "return", exc |-> "none", value |-> v]
Raise(e) == [kind |-> "raise", exc |-> e, value |-> <<>>]

get_categories_of_stock_ticker(data, stock_ticker) ==
  LET t == getitem(data.tickers_by_name, stock_ticker)
  IN IF t.exc = "KeyError" THEN Raise("TickerNotFoundError")
     ELSE Return(t.val.categories)

get_categories(data) ==
  Return([i \in 1..Len(data.categories_by_name.keys) |->
            data.categories_by_name.at[data.categories_by_name.keys[i]]])

get_minimum_cash_amount(data) == Return(data.minimum_cash_amount)

\* the handler's message f"Failed to find category {category}" reads the
\* local "category", which the failed lookup never bound
get_tickers_in_category(data, category_name) ==
  LET c == getitem(data.categories_by_name.at, category_name)
      category_bound == c.exc = "none"
  IN IF c.exc = "KeyError"
     THEN IF category_bound THEN Raise("CategoryNotFoundError")
          ELSE Raise("UnboundLocalError")
     ELSE Return(c.val.tickers)

\* the body of an accessor after load_info_from_csv() returned data
answer(call, data) ==
  CASE call.accessor = "get_categories_of_stock_ticker" ->
         get_categories_of_stock_ticker(data, call.arg)
    [] call.accessor = "get_categories" -> get_categories(data)
    [] call.accessor = "get_minimum_cash_amount" -> get_minimum_cash_amount(data)
    [] call.accessor = "get_tickers_in_category" ->
         get_tickers_in_category(data, call.arg)

\* the calls a client makes
ClientCalls ==
  {[accessor |-> "get_categories_of_stock_ticker", arg |-> t, by |-> "client"] :
     t \in {"AAPL"}}
    \cup {[accessor |-> a, arg |-> "", by |-> "client"] :
            a \in {"get_categories", "get_minimum_cash_amount"}}
    \cup {[accessor |-> "get_tickers_in_category", arg |-> c, by |-> "client"] :
            c \in {"Tech"}}

\* ------------------------------------------------------------------ main.py
\* what the brokerage may report: portfolio_dictionary['equity'],
\* portfolio_dictionary['cash_amount'], and positions_dictionary with the
\* total_value of each held symbol
Equities == {2400}
CashAmounts == {50, 300}
HeldSymbols == {"AAPL", "MSFT"}
TotalValues == {600}
Portfolios == [equity : Equities, cash_amount : CashAmounts]
PositionDicts ==
  UNION {[held -> [total_value : TotalValues]] : held \in SUBSET HeldSymbols}

Line(kind, data) == [line |-> kind, data |-> data]

\* allocation_loop, had the "Cash" branch "+=" for its "="
RECURSIVE allocation_loop_cash_adds(_, _, _, _, _, _)
allocation_loop_cash_adds(stocks_in_category, i, allocation_to_category, cash_amount, min, held) ==
  IF i > Len(stocks_in_category) THEN allocation_to_category
  ELSE LET ticker == stocks_in_category[i]
           cash_allocation == allocation_to_category + (cash_amount - min)
           position == getitem(held, ticker.name)
           next ==
             IF ticker.name = "Cash"
             THEN IF cash_allocation < 0 THEN 0 ELSE cash_allocation
             ELSE IF position.exc = "KeyError" THEN allocation_to_category
             ELSE allocation_to_category
                    + position.val.total_value \div Len(ticker.categories)
       IN allocation_loop_cash_adds(stocks_in_category, i + 1, next, cash_amount, min, held)

\* the loop "for ticker in stocks_in_category" from its i-th ticker on, with
\* allocation_to_category as accumulated so far
RECURSIVE allocation_loop(_, _, _, _, _, _)
allocation_loop(stocks_in_category, i, allocation_to_category, cash_amount, min, held) ==
  IF i > Len(stocks_in_category) THEN allocation_to_category
  ELSE LET ticker == stocks_in_category[i]
           cash_allocation == cash_amount - min
           position == getitem(held, ticker.name)
           next ==
             IF ticker.name = "Cash"
             THEN IF cash_allocation < 0 THEN 0 ELSE cash_allocation
             ELSE IF position.exc = "KeyError" THEN allocation_to_category
             ELSE allocation_to_category
                    + position.val.total_value \div Len(ticker.categories)
       IN allocation_loop(stocks_in_category, i + 1, next, cash_amount, min, held)

\* the body of "for category in sc.get_categories()": the line printed for
\* one category (its percentages are formatted from allocation_to_category
\* and the equity), or the exception of get_tickers_in_category
category_line(data, category, folio, held) ==
  LET stocks == get_tickers_in_category(data, category.name)
  IN IF stocks.kind = "raise" THEN [exc |-> stocks.exc, line |-> <<>>]
     ELSE [exc |-> "none",
           line |-> Line("category",
                      [name |-> category.name,
                       ideal |-> category.allocation_percentage,
                       allocation_to_category |->
                         allocation_loop(stocks.value, 1, 0, folio.cash_amount,
                                         get_minimum_cash_amount(data).value, held),
                       equity |-> folio.equity,
                       holdings |-> [i \in 1..Len(stocks.value) |-> stocks.value[i].name]])]

\* the loop over the categories from the i-th on: the lines printed, and the
\* exception that ended it, if any
RECURSIVE balance_lines(_, _, _, _, _)
balance_lines(data, categories, i, folio, held) ==
  IF i > Len(categories) THEN [exc |-> "none", lines |-> <<>>]
  ELSE LET l == category_line(data, categories[i], folio, held)
       IN IF l.exc # "none" THEN [exc |-> l.exc, lines |-> <<>>]
          ELSE LET rest == balance_lines(data, categories, i + 1, folio, held)
               IN [exc |-> rest.exc, lines |-> <<l.line>> \o rest.lines]

\* the symbols "for ticker_name in r.positions_dictionary" collects: those
\* for which get_categories_of_stock_ticker raises TickerNotFoundError
uncategorized_tickers(data, held) ==
  {ticker_name \in DOMAIN held :
     get_categories_of_stock_ticker(data, ticker_name).exc = "TickerNotFoundError"}

NoCall == [accessor |-> "none", arg |-> "", by |-> "none"]
NoResult == [kind |-> "none", exc |-> "none", value |-> <<>>, call |-> NoCall,
             at |-> "none", row |-> <<>>, parsed |-> FALSE]

VARIABLES
  pc,                    \* where the running call stands in _load_info_from_csv
  pending,               \* the accessor call in progress
  minimum_cash_amount,   \* locals of _load_info_from_csv
  categories_by_name,
  tickers_by_name,
  csv_data,              \* StockCategories.csv_data
  rowsRead, eof,         \* the row source: rows consumed, and exhausted
  result,                \* how the last accessor call ended
  parses,                \* calls of _load_info_from_csv on this object
  calls,                 \* accessor calls made by the client
  stock_ticker_seen,     \* this parse has read a "Stock ticker" row
  interp,                \* what the last row read was taken for
  mpc,                   \* where main() stands ("off": the object has a client)
  portfolio,             \* r.portfolio_dictionary, once fetched
  positions,             \* r.positions_dictionary, once fetched
  output,                \* the report lines printed so far
  abort_exc              \* the exception that ended main()

vars ==
  <<pc, pending, minimum_cash_amount, categories_by_name, tickers_by_name, csv_data,
    rowsRead, eof, result, parses, calls, stock_ticker_seen, interp,
    mpc, portfolio, positions, output, abort_exc>>

mainVars == <<mpc, portfolio, positions, output, abort_exc>>
scVars ==
  <<pc, pending, minimum_cash_amount, categories_by_name, tickers_by_name, csv_data,
    rowsRead, eof, result, parses, calls, stock_ticker_seen, interp>>

Init ==
  /\ pc = "idle"
  /\ pending = NoCall
  /\ minimum_cash_amount = None
  /\ categories_by_name = EmptyOrderedDict
  /\ tickers_by_name = EmptyDict
  /\ csv_data = None
  /\ rowsRead = 0
  /\ eof = FALSE
  /\ result = NoResult
  /\ parses = 0
  /\ calls = 0
  /\ stock_ticker_seen = FALSE
  /\ interp = "none"
  /\ mpc \in {"off", "start"}
  /\ portfolio = None
  /\ positions = None
  /\ output = <<>>
  /\ abort_exc = "none"

IsStockTickerRow(row) == Len(row) > 0 /\ row[1] = "Stock ticker"

\* what reader.__next__() may give
NextRows ==
  IF eof \/ rowsRead >= MaxRows THEN {StopIteration}
  ELSE {StopIteration} \cup {[stop |-> FALSE, row |-> r] : r \in RowPool}

ResetLocals ==
  /\ minimum_cash_amount' = None
  /\ categories_by_name' = EmptyOrderedDict
  /\ tickers_by_name' = EmptyDict

\* the accessor call in progress ends with res; data is csv_data afterwards
Finish(res, data) ==
  /\ result' = res
  /\ csv_data' = data
  /\ pc' = "idle"
  /\ pending' = NoCall
  /\ ResetLocals

Ended(r, at, row, parsed) ==
  [kind |-> r.kind, exc |-> r.exc, value |-> r.value, call |-> pending, at |-> at,
   row |-> row, parsed |-> parsed]

\* an accessor is called: load_info_from_csv() answers from csv_data, or
\* starts _load_info_from_csv()
Call(c) ==
  /\ pc = "idle"
  /\ IF needs_load(csv_data)
     THEN /\ pc' = "settings"
          /\ pending' = c
          /\ parses' = parses + 1
          /\ stock_ticker_seen' = FALSE
          /\ interp' = "none"
          /\ result' = NoResult
          /\ UNCHANGED <<minimum_cash_amount, categories_by_name, tickers_by_name,
                         csv_data>>
     ELSE /\ result' = [Ended(answer(c, csv_data[1]), "cache", <<>>, FALSE)
                          EXCEPT !.call = c]
          /\ UNCHANGED <<pc, pending, minimum_cash_amount, categories_by_name,
                         tickers_by_name, csv_data, parses, stock_ticker_seen, interp>>
  /\ UNCHANGED <<rowsRead, eof>>

ClientCall ==
  /\ mpc = "off"
  /\ calls < MaxCalls
  /\ calls' = calls + 1
  /\ \E c \in ClientCalls : Call(c)
  /\ UNCHANGED mainVars

ReadRow(in) ==
  /\ rowsRead' = IF in.stop THEN rowsRead ELSE rowsRead + 1
  /\ eof' = (eof \/ in.stop)

SettingsRow ==
  /\ pc = "settings"
  /\ \E in \in NextRows :
       /\ ReadRow(in)
       /\ IF in.stop
          THEN /\ pc' = "categories"
               /\ interp' = "eof"
               /\ UNCHANGED <<pending, minimum_cash_amount, categories_by_name,
                              tickers_by_name, csv_data, result, stock_ticker_seen>>
          ELSE LET row == trim_trailing_empty_values(in.row)
                   s == settings_row(row, minimum_cash_amount)
               IN /\ interp' = s.interp
                  /\ stock_ticker_seen' = (stock_ticker_seen \/ IsStockTickerRow(row))
                  /\ IF s.to = "raise"
                     THEN Finish(Ended(Raise(s.exc), "settings", row, TRUE), None)
                     ELSE /\ pc' = s.to
                          /\ minimum_cash_amount' = s.min
                          /\ UNCHANGED <<pending, categories_by_name, tickers_by_name,
                                         csv_data, result>>
  /\ UNCHANGED <<parses, calls>>
  /\ UNCHANGED mainVars

CategoriesRow ==
  /\ pc = "categories"
  /\ \E in \in NextRows :
       /\ ReadRow(in)
       /\ IF in.stop
          THEN /\ pc' = "tickers"
               /\ interp' = "eof"
               /\ UNCHANGED <<pending, minimum_cash_amount, categories_by_name,
                              tickers_by_name, csv_data, result, stock_ticker_seen>>
          ELSE LET row == trim_trailing_empty_values(in.row)
                   s == categories_row(row, categories_by_name)
               IN /\ interp' = s.interp
                  /\ stock_ticker_seen' = (stock_ticker_seen \/ IsStockTickerRow(row))
                  /\ IF s.to = "raise"
                     THEN Finish(Ended(Raise(s.exc), "categories", row, TRUE), None)
                     ELSE /\ pc' = s.to
                          /\ categories_by_name' = s.cats
                          /\ UNCHANGED <<pending, minimum_cash_amount, tickers_by_name,
                                         csv_data, result>>
  /\ UNCHANGED <<parses, calls>>
  /\ UNCHANGED mainVars

TickersRow ==
  /\ pc = "tickers"
  /\ \E in \in NextRows :
       /\ ReadRow(in)
       /\ IF in.stop
          THEN /\ interp' = "eof"
               /\ UNCHANGED stock_ticker_seen
               /\ IF minimum_cash_amount = None
                  THEN Finish(Ended(Raise("ParseError"), "end", <<>>, TRUE), None)
                  ELSE LET data == [minimum_cash_amount |-> minimum_cash_amount[1],
                                    categories_by_name |-> categories_by_name,
                                    tickers_by_name |-> tickers_by_name]
                       IN Finish(Ended(answer(pending, data), "end", <<>>, TRUE),
                                 Some(data))
          ELSE LET row == trim_trailing_empty_values(in.row)
                   s == tickers_row(row, categories_by_name, tickers_by_name)
               IN /\ interp' = s.interp
                  /\ stock_ticker_seen' = (stock_ticker_seen \/ IsStockTickerRow(row))
                  /\ IF s.to = "raise"
                     THEN Finish(Ended(Raise(s.exc), "tickers", row, TRUE), None)
                     ELSE /\ pc' = s.to
                          /\ categories_by_name' = s.cats
                          /\ tickers_by_name' = s.ticks
                          /\ UNCHANGED <<pending, minimum_cash_amount, csv_data, result>>
  /\ UNCHANGED <<parses, calls>>
  /\ UNCHANGED mainVars

\* an accessor call of main() after the first one has returned: the object is
\* main's own, so load_info_from_csv() answers from csv_data
sc(accessor, arg) == answer([accessor |-> accessor, arg |-> arg, by |-> "main"], csv_data[1])

\* main.py 198-206: the section header and the equity line are printed, then
\* the arguments of the "Reserved cash" line are evaluated, the first of them
\* sc.get_minimum_cash_amount()
MainStart ==
  /\ mpc = "start"
  /\ \E folio \in Portfolios : portfolio' = Some(folio)
  /\ output' = <<Line("header", "Robinhood"), Line("equity", portfolio'[1])>>
  /\ Call([accessor |-> "get_minimum_cash_amount", arg |-> "", by |-> "main"])
  /\ mpc' = "reserved"
  /\ UNCHANGED <<positions, abort_exc, calls>>

\* main.py 204-207, once that call has ended: its exception ends main();
\* otherwise the percentage divides by sc.get_minimum_cash_amount()
MainReservedCash ==
  /\ mpc = "reserved"
  /\ pc = "idle"
  /\ IF result.kind = "raise"
     THEN /\ mpc' = "aborted"
          /\ abort_exc' = result.exc
          /\ UNCHANGED output
     ELSE IF sc("get_minimum_cash_amount", "").value = 0
     THEN /\ mpc' = "aborted"
          /\ abort_exc' = "ZeroDivisionError"
          /\ UNCHANGED output
     ELSE /\ mpc' = "positions"
          /\ output' = Append(output,
                         Line("reserved", <<portfolio[1].cash_amount, result.value>>))
          /\ UNCHANGED abort_exc
  /\ UNCHANGED <<portfolio, positions>>
  /\ UNCHANGED scVars

\* main.py 211-214: the positions table and the CSV file
MainPositions ==
  /\ mpc = "positions"
  /\ \E held \in PositionDicts : positions' = Some(held)
  /\ output' = output \o <<Line("header", "Positions"), Line("table", DOMAIN positions'[1])>>
  /\ mpc' = "balance"
  /\ UNCHANGED <<portfolio, abort_exc>>
  /\ UNCHANGED scVars

\* main.py 218-244: the category table
MainBalance ==
  /\ mpc = "balance"
  /\ LET b == balance_lines(csv_data[1], sc("get_categories", "").value, 1,
                            portfolio[1], positions[1])
     IN /\ output' =
             output \o <<Line("header", "Portfolio balance"), Line("columns", <<>>)>>
               \o b.lines
        /\ mpc' = IF b.exc = "none" THEN "warnings" ELSE "aborted"
        /\ abort_exc' = b.exc
  /\ UNCHANGED <<portfolio, positions>>
  /\ UNCHANGED scVars

\* main.py 247-255: the warning for the held symbols without a ticker entry
MainWarnings ==
  /\ mpc = "warnings"
  /\ LET uncategorized == uncategorized_tickers(csv_data[1], positions[1])
     IN output' =
          IF uncategorized # {}
          THEN output \o <<Line("header", "Warnings"), Line("warning", uncategorized)>>
          ELSE output
  /\ mpc' = "done"
  /\ UNCHANGED <<portfolio, positions, abort_exc>>
  /\ UNCHANGED scVars

Next ==
  \/ ClientCall
  \/ SettingsRow
  \/ CategoriesRow
  \/ TickersRow
  \/ MainStart
  \/ MainReservedCash
  \/ MainPositions
  \/ MainBalance
  \/ MainWarnings

Spec == Init /\ [][Next]_vars

\* ------------------------------------------------------------ properties
\* main() calls the accessors again only after its first call has returned,
\* and then csv_data is set
MainCallsCached ==
  mpc \in {"positions", "balance", "warnings", "done"} => ~needs_load(csv_data)

Parsed == csv_data # None
Data == csv_data[1]
CategoryKeys == DOMAIN Data.categories_by_name.at
TickersOf(c) == Data.categories_by_name.at[c].tickers
NamesIn(tickers) == {tickers[i].name : i \in 1..Len(tickers)}
Max0(x) == IF x < 0 THEN 0 ELSE x

\* the category lines of the report printed so far
CategoryLines == {output[i].data : i \in {j \in 1..Len(output) : output[j].line = "category"}}

\* C1: tickers_in_category with a name that is no category of the parsed
\* configuration fails with CategoryNotFoundError and with nothing else.
C1_UnknownCategoryRaisesCategoryNotFound ==
  (/\ Parsed
   /\ result.kind # "none"
   /\ result.call.accessor = "get_tickers_in_category"
   /\ result.call.arg \notin CategoryKeys)
    => (result.kind = "raise" /\ result.exc = "CategoryNotFoundError")

\* C2: a category row whose allocation cell is not numeric once '%' is
\* stripped makes the parse fail with ParseError, nothing being registered.
C2_MalformedPercentageRaisesParseError ==
  (/\ result.parsed
   /\ result.at = "categories"
   /\ Len(result.row) >= 2
   /\ float(replace_percent(result.row[2])).exc # "none")
    => (result.kind = "raise" /\ result.exc = "ParseError" /\ ~Parsed)

\* C3: a "Reserved cash amount" value that is no float, or an input that
\* ends with the setting never set, ends the parse in ParseError.
C3_CashReserveRaisesParseError ==
  /\ (/\ result.parsed
      /\ result.at = "settings"
      /\ Len(result.row) >= 2
      /\ result.row[1] = "Reserved cash amount"
      /\ float(result.row[2]).exc # "none")
       => (result.kind = "raise" /\ result.exc = "ParseError" /\ ~Parsed)
  /\ (result.parsed /\ result.at = "end" /\ ~Parsed)
       => (result.kind = "raise" /\ result.exc = "ParseError")

\* C4: once a "Stock ticker" row has been read, in whichever section, no
\* later non-empty row is taken for a category row or a setting.
C4_TickerSectionAfterMarker ==
  [][(pc # "idle" /\ stock_ticker_seen /\ rowsRead' = rowsRead + 1)
       => interp' \notin {"category", "setting"}]_vars

HasCash(tickers) == "Cash" \in NamesIn(tickers)
MixesCash(tickers) == HasCash(tickers) /\ NamesIn(tickers) # {"Cash"}
CashOnly == Max0(portfolio[1].cash_amount - Data.minimum_cash_amount)

\* C5, as claimed: a category that mixes "Cash" with real symbols is
\* allocated the cash above the reserve and nothing else, wherever "Cash"
\* stands in its list.
C5_CashOnlyWhereverCashStands ==
  \A l \in CategoryLines :
    MixesCash(TickersOf(l.name)) => l.allocation_to_category = CashOnly

LastCash(tickers) ==
  CHOOSE i \in 1..Len(tickers) :
    /\ tickers[i].name = "Cash"
    /\ \A j \in (i + 1)..Len(tickers) : tickers[j].name # "Cash"

\* what the i-th ticker of a list adds when it is a held real symbol
Share(tickers, i) ==
  IF tickers[i].name # "Cash" /\ tickers[i].name \in DOMAIN positions[1]
  THEN positions[1][tickers[i].name].total_value \div Len(tickers[i].categories)
  ELSE 0

RECURSIVE SumShares(_, _)
SumShares(tickers, I) ==
  IF I = {} THEN 0
  ELSE LET i == CHOOSE x \in I : TRUE
       IN Share(tickers, i) + SumShares(tickers, I \ {i})

\* C5, amended: the category is allocated the cash above the reserve plus
\* the shares of the held real symbols listed after its last "Cash"; what
\* was accumulated before that "Cash" is discarded.
C5_CashOverwritesEarlierShares ==
  \A l \in CategoryLines :
    LET tickers == TickersOf(l.name)
    IN MixesCash(tickers) =>
         l.allocation_to_category =
           CashOnly + SumShares(tickers, (LastCash(tickers) + 1)..Len(tickers))

\* a report line of a category that lists a held real symbol both before and
\* after its "Cash"
C5_Witness ==
  \E l \in CategoryLines :
    LET tickers == TickersOf(l.name)
    IN /\ MixesCash(tickers)
       /\ \E i \in 1..Len(tickers) : i < LastCash(tickers) /\ Share(tickers, i) > 0
       /\ \E k \in 1..Len(tickers) : k > LastCash(tickers) /\ Share(tickers, k) > 0
       /\ CashOnly > 0

\* the categories a ticker name is declared in
DeclaredIn(n) == {c \in CategoryKeys : n \in NamesIn(TickersOf(c))}

\* C6: a held real ticker declared in K categories adds total_value / K to
\* each of them (in the categories that list no "Cash"), total_value in all.
C6_WeightSplitting ==
  \A l \in CategoryLines :
    ~HasCash(TickersOf(l.name)) =>
      l.allocation_to_category =
        LET members == {n \in DOMAIN positions[1] : l.name \in DeclaredIn(n)}
            Part(n) == positions[1][n].total_value \div Cardinality(DeclaredIn(n))
            sum[S \in SUBSET members] ==
              IF S = {} THEN 0
              ELSE LET n == CHOOSE x \in S : TRUE IN Part(n) + sum[S \ {n}]
        IN sum[members]

\* C7: the union of the names tickers_in_category returns over all
\* categories is the set of parsed ticker names with a non-empty category list.
C7_RoundTrip ==
  Parsed =>
    UNION {NamesIn(get_tickers_in_category(Data, c).value) : c \in CategoryKeys}
      = {n \in DOMAIN Data.tickers_by_name : Data.tickers_by_name[n].categories # <<>>}

\* C8: a run whose configuration fails to parse has printed nothing of the
\* report when it aborts.
C8_NoPartialReport ==
  (mpc = "aborted" /\ ~Parsed) => output = <<>>

\* C9, as claimed: the row source is consumed by at most one parse.
C9_AtMostOneParse == parses <= 1

\* C9, amended: once a parse has succeeded its result is kept: no later call
\* parses or reads the row source again, and every later call is answered
\* from that result. (A failed parse caches nothing: the next call parses
\* again, from the rows that remain.)
C9_CachedOnceParsed ==
  [][Parsed =>
       /\ csv_data' = csv_data
       /\ parses' = parses
       /\ rowsRead' = rowsRead
       /\ pc' = "idle"
       /\ (calls' # calls =>
             /\ result'.at = "cache"
             /\ result'.kind = answer(result'.call, Data).kind
             /\ result'.exc = answer(result'.call, Data).exc
             /\ result'.value = answer(result'.call, Data).value)]_vars

\* a call answered from the result of the second parse, the first having failed
C9_Witness == Parsed /\ parses = 2 /\ result.at = "cache" /\ calls = 3

Warned ==
  UNION {output[i].data : i \in {j \in 1..Len(output) : output[j].line = "warning"}}
IsMember(n) == DeclaredIn(n) # {}

\* C10: after a completed run every held symbol is a member ticker of some
\* category or is listed in the warning.
C10_MemberOrWarned ==
  mpc = "done" => \A n \in DOMAIN positions[1] : IsMember(n) \/ n \in Warned
====
